---- MODULE Spec2Model ----
(***************************************************************************)
(* A model of roboto's src/roboto/app/main.py: the dependency comparator   *)
(* (convert_to_str, get_table_deps), the command dispatch                  *)
(* (run_command_msg), the show-requirements handler and the notification   *)
(* poller (check_notifications).                                           *)
(***************************************************************************)
EXTENDS Integers, Sequences, FiniteSets, TLC

(***************************************************************************)
(* Bounds of the model.                                                    *)
(***************************************************************************)
\* longest dependency list of one requirements section
MaxDeps == 2

(***************************************************************************)
(*                      PART I: the dependency comparator                  *)
(***************************************************************************)

\* A dependency (souschef ingredient) is read through three attributes:
\* package_name, constrains and selector.  An absent constraint or selector
\* is the empty string, which Python treats as false.
PackageNames == {"a", "b", "c"}
Constrains   == {"", ">=1.20"}
Selectors    == {"", "win"}

\* The dependencies the inputs are drawn from: every combination of name,
\* constraint and selector for "a" and "b", and the bare name "c".
Dependency ==
    {d \in [package_name : PackageNames, constrains : Constrains, selector : Selectors] :
        d.package_name = "c" => (d.constrains = "" /\ d.selector = "")}

\* How the dependency type compares with a plain string.  The type comes from
\* souschef, outside this repository: either it does not define such a
\* comparison (Python's default: an object never equals a string), or it
\* compares its text (name and constraint, the selector being a comment).
StrEqModes == {"identity", "value"}

Glyphs == {":heavy_check_mark:", ":heavy_exclamation_mark:", ":x:", ":heavy_plus_sign:"}

\* convert_to_str: "<name>", then " <constraint>" and "  # [<selector>]" when present
convert_to_str(ingredient) ==
    LET s0 == ingredient.package_name
        s1 == IF ingredient.constrains # "" THEN s0 \o " " \o ingredient.constrains ELSE s0
    IN  IF ingredient.selector # "" THEN s1 \o "  # [" \o ingredient.selector \o "]" ELSE s1

\* x == dep for a string x and a dependency dep, as list membership evaluates it
StrEqDep(x, dep, mode) ==
    IF mode = "value"
    THEN dep.constrains = "" /\ dep.package_name = x
    ELSE FALSE

\* x in deps  (Python list membership: some element equals x)
StrInDeps(x, deps, mode) == \E i \in 1..Len(deps) : StrEqDep(x, deps[i], mode)

\* a loop without the break: the last dependency of that name decides
FirstMatch_Last(current_dep, gs_deps) ==
    LET hits == {j \in 1..Len(gs_deps) : gs_deps[j].package_name = current_dep.package_name}
    IN  IF hits = {} THEN 0 ELSE CHOOSE j \in hits : \A k \in hits : j >= k

\* index of the first dependency of gs_deps with that package name, 0 if none:
\* the inner for loop with its break
FirstMatch(current_dep, gs_deps) ==
    LET hits == {j \in 1..Len(gs_deps) : gs_deps[j].package_name = current_dep.package_name}
    IN  IF hits = {} THEN 0 ELSE CHOOSE j \in hits : \A k \in hits : j <= k

\* the row one current dependency produces: body of the outer for loop
CurrentRow(current_dep, gs_deps) ==
    LET j == FirstMatch(current_dep, gs_deps)
    IN  IF j = 0
        THEN [cur |-> convert_to_str(current_dep), found |-> "", mark |-> ":x:"]
        ELSE IF /\ gs_deps[j].constrains = current_dep.constrains
                /\ gs_deps[j].selector = current_dep.selector
             THEN [cur   |-> convert_to_str(gs_deps[j]),
                   found |-> convert_to_str(gs_deps[j]),
                   mark  |-> ":heavy_check_mark:"]
             ELSE [cur   |-> convert_to_str(current_dep),
                   found |-> convert_to_str(gs_deps[j]),
                   mark  |-> ":heavy_exclamation_mark:"]

\* the first loop: one row per current dependency, in list order
CurrentRows(current_deps, gs_deps) ==
    [i \in 1..Len(current_deps) |-> CurrentRow(current_deps[i], gs_deps)]

\* the guard of the second loop: gs_dep.package_name not in <current list>
EmitsFoundOnly(gs_dep, current_deps, mode) ==
    ~ StrInDeps(gs_dep.package_name, current_deps, mode)

\* the second loop: a plus-sign row for every found dependency that passes the guard
RECURSIVE FoundOnlyRows(_, _, _)
FoundOnlyRows(gs_deps, current_deps, mode) ==
    IF gs_deps = <<>> THEN <<>>
    ELSE LET rest == FoundOnlyRows(Tail(gs_deps), current_deps, mode)
         IN  IF EmitsFoundOnly(Head(gs_deps), current_deps, mode)
             THEN <<[cur |-> "", found |-> convert_to_str(Head(gs_deps)),
                     mark |-> ":heavy_plus_sign:"]>> \o rest
             ELSE rest

\* req_section.upper()
Upper(req_section) ==
    CASE req_section = "build" -> "BUILD"
      [] req_section = "host"  -> "HOST"
      [] req_section = "run"   -> "RUN"

\* the four header lines of a section table
TableHeader(req_section) ==
    << "================ **" \o Upper(req_section) \o "** ================",
       "Requirements for **" \o req_section \o "**",
       "| Current Deps | Grayskull found |  |",
       "|--------------|-----------------|--|" >>

\* the two loops in the other order
get_table_deps_FoundFirst(current_deps, gs_deps, req_section, mode) ==
    [header |-> TableHeader(req_section),
     rows   |-> FoundOnlyRows(gs_deps, current_deps, mode)
                  \o CurrentRows(current_deps, gs_deps)]

\* get_table_deps: the header and the rows of one section table
get_table_deps(current_deps, gs_deps, req_section, mode) ==
    [header |-> TableHeader(req_section),
     rows   |-> CurrentRows(current_deps, gs_deps)
                  \o FoundOnlyRows(gs_deps, current_deps, mode)]

\* ---- recipes ----
\* recipe["requirements"] maps section names to their value: a list of
\* dependencies, null (the key is there without entries), or no key at all
Sections == <<"build", "host", "run">>

SectionNames == {Sections[k] : k \in 1..Len(Sections)}

\* x or []
OrEmpty(value) == IF value.kind = "list" THEN value.deps ELSE <<>>

\* get_table_deps(current_recipe, gs_recipe, req_section) on recipes, for a
\* section whose key the current recipe has: line 57 iterates the current
\* value as it is, lines 58 and 77 look the section up in the found recipe
\* and take "or []" of what they get
SectionTable(recipe, gs_recipe, req_section, mode) ==
    IF recipe[req_section].kind = "null"
    THEN [error |-> "TypeError", table |-> [header |-> <<>>, rows |-> <<>>]]
    ELSE IF gs_recipe[req_section].kind = "absent"
    THEN [error |-> "KeyError", table |-> [header |-> <<>>, rows |-> <<>>]]
    ELSE [error |-> "",
          table |-> get_table_deps(recipe[req_section].deps,
                                   OrEmpty(gs_recipe[req_section]), req_section, mode)]

\* "<section>" in recipe["requirements"]
HasSection(recipe, req_section) == recipe[req_section].kind # "absent"

\* get_gs_message_show_requirements: the tables of build, host and run, in
\* that order, each for a section key of the current recipe; an exception
\* of one table ends the call
RECURSIVE MessageFrom(_, _, _, _)
MessageFrom(k, recipe, gs_recipe, mode) ==
    IF k > Len(Sections) THEN [error |-> "", tables |-> <<>>]
    ELSE IF ~ HasSection(recipe, Sections[k])
    THEN MessageFrom(k + 1, recipe, gs_recipe, mode)
    ELSE LET first == SectionTable(recipe, gs_recipe, Sections[k], mode)
             rest  == MessageFrom(k + 1, recipe, gs_recipe, mode)
         IN  IF first.error # "" THEN [error |-> first.error, tables |-> <<>>]
             ELSE IF rest.error # "" THEN rest
             ELSE [error  |-> "",
                   tables |-> <<[section |-> Sections[k],
                                 header  |-> first.table.header,
                                 rows    |-> first.table.rows,
                                 sep     |-> IF Sections[k] = "run" THEN "" ELSE "\n\n"]>>
                              \o rest.tables]

get_gs_message_show_requirements(recipe, gs_recipe, mode) ==
    MessageFrom(1, recipe, gs_recipe, mode)

(***************************************************************************)
(*                PART II: command dispatch, handler, poller               *)
(***************************************************************************)

\* most mentions the platform receives in one run of the model
MaxMentions == 2
\* most polling cycles started in one run of the model
MaxCycles == 2
\* longest run of whitespace between two words of a message text
MaxWs == 2

\* ---- run_command_msg: the command pattern ----
\* A message is a sequence of characters.  The pattern of all_cmds is
\*   @conda\-grayskull\s+show\s+requirement[s]*
\* and re_match.match(msg) matches it at the start of msg.
BotName     == <<"@","c","o","n","d","a","-","g","r","a","y","s","k","u","l","l">>
ShowWord    == <<"s","h","o","w">>
Requirement == <<"r","e","q","u","i","r","e","m","e","n","t">>

\* the characters \s matches in a str pattern: the Unicode whitespace.  A
\* character that has no escape in a string here is written by its code
\* point, "\\x0b" for U+000B.
Whitespace ==
    {" ", "\t", "\n", "\r", "\f", "\\x0b", "\\x1c", "\\x1d", "\\x1e", "\\x1f",
     "\\x85", "\\xa0", "\\u1680", "\\u2000", "\\u2001", "\\u2002", "\\u2003",
     "\\u2004", "\\u2005", "\\u2006", "\\u2007", "\\u2008", "\\u2009", "\\u200a",
     "\\u2028", "\\u2029", "\\u202f", "\\u205f", "\\u3000"}

\* lit occurs in msg at position pos
LitAt(msg, pos, lit) ==
    /\ pos + Len(lit) - 1 <= Len(msg)
    /\ \A k \in 1..Len(lit) : msg[pos + k - 1] = lit[k]

\* the position after the longest run of whitespace that starts at pos
RECURSIVE SkipWs(_, _)
SkipWs(msg, pos) ==
    IF pos <= Len(msg) /\ msg[pos] \in Whitespace THEN SkipWs(msg, pos + 1) ELSE pos

\* the pattern matches the text of msg that starts at position start;
\* the final [s]* matches any number of "s", none included
MatchAt(msg, start) ==
    /\ LitAt(msg, start, BotName)
    /\ LET p1 == start + Len(BotName)
           p2 == SkipWs(msg, p1)
       IN  /\ p2 > p1
           /\ LitAt(msg, p2, ShowWord)
           /\ LET p3 == p2 + Len(ShowWord)
                  p4 == SkipWs(msg, p3)
              IN  /\ p4 > p3
                  /\ LitAt(msg, p4, Requirement)

\* re_match.search(msg): a match anywhere in the message
ReMatch_Search(msg) == \E start \in 1..Len(msg) : MatchAt(msg, start)

\* re_match.match(msg) is not None: the pattern must match a prefix of msg
ReMatch(msg) == MatchAt(msg, 1)

\* a pattern that insists on the plural: requirements
Route_PluralOnly(msg) ==
    IF ReMatch(msg) /\ msg[Len(msg)] = "s" THEN "show_requirements" ELSE "not_recognized"

\* the for/else of run_command_msg: the handler of the first matching
\* pattern, or the not-recognized reply
Route(msg) == IF ReMatch(msg) THEN "show_requirements" ELSE "not_recognized"

\* ---- the comments on the platform ----
\* the comments that the GET of subject.latest_comment_url may return
Comments == {"plural", "singular", "delete"}

CommentBody(c) ==
    CASE c = "plural"   -> <<"@","c","o","n","d","a","-","g","r","a","y","s","k","u","l","l"," ","s","h","o","w"," ","r","e","q","u","i","r","e","m","e","n","t","s">>
      [] c = "singular" -> <<"@","c","o","n","d","a","-","g","r","a","y","s","k","u","l","l"," ","s","h","o","w"," ","r","e","q","u","i","r","e","m","e","n","t">>
      [] c = "delete"   -> <<"@","c","o","n","d","a","-","g","r","a","y","s","k","u","l","l"," ","d","e","l","e","t","e"," ","e","v","e","r","y","t","h","i","n","g">>

\* ---- state ----
VARIABLES
    current, found, str_eq, table, compared,   \* the comparator's run
    recipe, gs_recipe, message,                \* the run of the message builder
    parts, routed,                             \* the run of the command matcher
    unread,        \* platform: the unread mention notifications
    mentions,      \* platform: number of mentions made so far
    loop_pc,       \* the repeat_every loop: "ready", "call" or "sleep"
    elapsed,       \* the polling interval has passed since the last cycle began
    running,       \* invocations of check_notifications in flight
    cycles,        \* polling cycles started
    pc,            \* position inside check_notifications and its callees
    all_mentions,  \* the batch fetched by this cycle
    idx,           \* position of the for loop in all_mentions
    last_update,   \* the watermark, 0 for None
    msg,           \* the comment fetched for the current mention
    calls,         \* calls made by this cycle, in order
    outcome,       \* how the last cycle ended
    dirs,          \* scratch directories that exist
    made,          \* scratch directories the current handler invocation created
    tree,          \* recipe files of the clone, until the handler has looked for them
    recipe_path,   \* the recipe file the handler chose, until it is loaded
    error,         \* message of the exception that ended the cycle
    redo           \* notifications of batches an exception cut short, not fetched since

cvars == <<current, found, str_eq, table, compared>>

pvars == <<unread, mentions, loop_pc, elapsed, running, cycles, pc, all_mentions,
           idx, last_update, msg, calls, outcome, dirs, made, tree, recipe_path,
           error, redo>>

mvars == <<recipe, gs_recipe, message>>

tvars == <<parts, routed>>

\* what the poller leaves alone
ovars == <<cvars, mvars, tvars>>

vars == <<cvars, mvars, tvars, pvars>>

\* ---- notifications ----
\* updated_at is an ISO-8601 text: an instant, with or without the suffix "Z".
\* The notifications of the model carry one of three instants T1 < T2 < T3.
UpdatedAt == { [instant |-> 1, suffix |-> "Z"],
               [instant |-> 2, suffix |-> ""],
               [instant |-> 3, suffix |-> "Z"] }

\* lines 177-180: strip a trailing "Z", then datetime.fromisoformat
ParseUpdatedAt(u) ==
    LET stripped == IF u.suffix = "Z" THEN [u EXCEPT !.suffix = ""] ELSE u
    IN  stripped.instant

\* the watermark of the notification seen last, not the maximum
FoldWatermark_Latest(t, last) == t

\* lines 181-184: the running maximum, starting from None
FoldWatermark(t, last) == IF last # 0 THEN (IF t > last THEN t ELSE last) ELSE t

\* a comment: its issue and its body, the body by the name of its text
NoMsg == [issue_url |-> 0, body |-> "none"]

Ev(op, n, at, step) == [op |-> op, n |-> n, at |-> at, step |-> step]

\* the orders in which the platform may return a set of notifications
Orders(S) ==
    {s \in [1..Cardinality(S) -> S] : \A j, k \in 1..Cardinality(S) : s[j] = s[k] => j = k}

\* the directories are removed on normal completion only
DirsAfterRaise_Leak(d) == d

\* TemporaryDirectory.__exit__ of both with blocks while an exception
\* propagates out of the handler
DirsAfterRaise(d) == d \ {"folder", "sdist_folder"}

\* TemporaryDirectory.__exit__ of both with blocks on normal completion
DirsAfterReturn(d) == d \ {"folder", "sdist_folder"}

\* a timer that fires every interval, whether or not a cycle is in flight
CanStartCycle_OnTimer == loop_pc = "ready" \/ elapsed

\* the repeat_every loop calls check_notifications, awaits its end, sleeps
\* the interval, and only then calls it again
CanStartCycle == loop_pc = "ready"

HandlerPcs == {"issue", "pr", "clone", "locate", "load", "render", "download",
               "regenerate", "comment"}

\* the steps of the handler that can raise
HandlerSteps == HandlerPcs \cup {"compare"}

PollerInit ==
    /\ unread = {}
    /\ mentions = 0
    /\ loop_pc = "ready"
    /\ elapsed = FALSE
    /\ running = 0
    /\ cycles = 0
    /\ pc = "idle"
    /\ all_mentions = <<>>
    /\ idx = 0
    /\ last_update = 0
    /\ msg = NoMsg
    /\ calls = <<>>
    /\ outcome = "none"
    /\ dirs = {}
    /\ made = {}
    /\ tree = {}
    /\ recipe_path = ""
    /\ error = ""
    /\ redo = {}

\* ---- the platform ----
\* somebody mentions the bot in a comment: a new unread notification; its
\* id stands for its thread (subject.latest_comment_url, issue_url)
Mention ==
    /\ mentions < MaxMentions
    /\ \E u \in UpdatedAt :
          unread' = unread \cup {[id |-> mentions + 1, updated_at |-> u]}
    /\ mentions' = mentions + 1
    /\ UNCHANGED <<loop_pc, elapsed, running, cycles, pc, all_mentions, idx,
                   last_update, msg, calls, outcome, dirs, made, tree, recipe_path,
                   error, redo>>
    /\ UNCHANGED ovars

\* ---- the repeat_every loop ----
\* the interval passes while a cycle is still in flight
IntervalElapses ==
    /\ loop_pc = "call"
    /\ ~ elapsed
    /\ elapsed' = TRUE
    /\ UNCHANGED <<unread, mentions, loop_pc, running, cycles, pc, all_mentions, idx,
                   last_update, msg, calls, outcome, dirs, made, tree, recipe_path,
                   error, redo>>
    /\ UNCHANGED ovars

\* asyncio.sleep(seconds) returns; nothing of the finished call is left but
\* the record of the batch that an exception cut short before the PUT
SleepDone ==
    /\ loop_pc = "sleep"
    /\ loop_pc' = "ready"
    /\ elapsed' = TRUE
    /\ redo' = IF /\ outcome = "raised"
                  /\ \A p \in 1..Len(calls) : calls[p].op # "mark_read"
               THEN redo \cup {all_mentions[k].id : k \in 1..Len(all_mentions)}
               ELSE redo
    /\ all_mentions' = <<>>
    /\ idx' = 0
    /\ last_update' = 0
    /\ msg' = NoMsg
    /\ calls' = <<>>
    /\ outcome' = "none"
    /\ made' = {}
    /\ error' = ""
    /\ UNCHANGED <<unread, mentions, running, cycles, pc, dirs, tree, recipe_path>>
    /\ UNCHANGED ovars

\* pr_json["head"]["repo"]["git_url"] of the pull request of thread n
GitUrl(n) == "git://github.com/contributor/feedstock-" \o ToString(n) \o ".git"

\* the exception a step raises: the message of the ValueError of lines
\* 114-117 for the recipe lookup; at every other step the class depends on
\* what failed (an HTTP status, the transport, a missing key, a library), and
\* only that it is an exception is kept
ErrorOf(n, step) ==
    IF step = "locate"
    THEN "There is no recipe file in recipe folder (meta.yaml or meta.yml)"
           \o " - " \o GitUrl(n)
    ELSE "Exception"

\* what the platform keeps unread after a mark-read call with that watermark
StillUnread(S, last_read_at) == {n \in S : ParseUpdatedAt(n.updated_at) > last_read_at}

\* a mark-read call in a finally clause
UnreadAfterRaise_Finally(S, last_read_at) == StillUnread(S, last_read_at)

\* an exception raised before line 193 passes the PUT of lines 193-198 by:
\* the platform's unread notifications stay as they are
UnreadAfterRaise(S, last_read_at) == S

\* an exception leaves check_notifications after the calls of log: the
\* cycle is over, the loop catches it and goes to sleep
RaiseAfter(log, n, step, newdirs) ==
    /\ calls' = Append(log, Ev("raise", n, 0, step))
    /\ error' = ErrorOf(n, step)
    /\ pc' = "idle"
    /\ outcome' = "raised"
    /\ running' = running - 1
    /\ loop_pc' = "sleep"
    /\ dirs' = newdirs
    /\ tree' = IF "folder" \in newdirs THEN tree ELSE {}
    /\ recipe_path' = ""
    /\ unread' = UnreadAfterRaise(unread, last_update)

Raise(n, step, newdirs) == RaiseAfter(calls, n, step, newdirs)

\* ---- check_notifications ----
\* lines 168-175: GET the unread mentions
StartCycle ==
    /\ CanStartCycle
    /\ cycles < MaxCycles
    /\ cycles' = cycles + 1
    /\ elapsed' = FALSE
    /\ msg' = NoMsg
    /\ made' = {}
    /\ \/ /\ \E order \in Orders(unread) : all_mentions' = order
          /\ idx' = 1
          /\ last_update' = 0
          /\ calls' = <<>>
          /\ error' = ""
          /\ pc' = "loop"
          /\ outcome' = "running"
          /\ running' = running + 1
          /\ loop_pc' = "call"
          /\ redo' = {}
       \/ \* response.raise_for_status() raises
          /\ all_mentions' = <<>>
          /\ idx' = 0
          /\ last_update' = 0
          /\ calls' = <<Ev("raise", 0, 0, "notifications")>>
          /\ error' = ErrorOf(0, "notifications")
          /\ pc' = "idle"
          /\ outcome' = "raised"
          /\ running' = running
          /\ loop_pc' = "sleep"
          /\ UNCHANGED redo
    /\ UNCHANGED <<unread, mentions, dirs, tree, recipe_path>>
    /\ UNCHANGED ovars

\* lines 177-188: fold the watermark, GET the latest comment
FetchComment ==
    /\ pc = "loop"
    /\ idx <= Len(all_mentions)
    /\ LET mention == all_mentions[idx]
           t == ParseUpdatedAt(mention.updated_at)
       IN  /\ last_update' = FoldWatermark(t, last_update)
           /\ \/ /\ \E c \in Comments :
                      /\ msg' = [issue_url |-> mention.id, body |-> c]
                      /\ calls' = Append(calls, Ev("get_comment", mention.id, 0, c))
                 /\ pc' = "ack"
                 /\ UNCHANGED <<outcome, running, loop_pc, dirs, unread, tree,
                                recipe_path, error>>
              \/ /\ Raise(mention.id, "get_comment", dirs)
                 /\ UNCHANGED msg
    /\ UNCHANGED <<mentions, elapsed, cycles, all_mentions, idx, made, redo>>
    /\ UNCHANGED ovars

\* no acknowledgment is posted
AckCalls_Missing(n) == <<>>

\* line 190: the acknowledgment posted for a mention, whatever its command
AckCalls(n) == <<Ev("ack", n, 0, "")>>

\* line 190: send_comment(msg["issue_url"], "Working on your request...")
Acknowledge ==
    /\ pc = "ack"
    /\ \/ /\ calls' = calls \o AckCalls(msg.issue_url)
          /\ pc' = "dispatch"
          /\ UNCHANGED <<outcome, running, loop_pc, dirs, unread, tree, recipe_path, error>>
       \/ Raise(msg.issue_url, "ack", dirs)
    /\ UNCHANGED <<mentions, elapsed, cycles, all_mentions, idx, last_update,
                   msg, made, redo>>
    /\ UNCHANGED ovars

\* lines 192, 149-162: run_command_msg(msg)
Dispatch ==
    /\ pc = "dispatch"
    /\ LET n == msg.issue_url
           called == Append(calls, Ev("dispatch", n, 0, ""))
       IN  IF Route(CommentBody(msg.body)) = "show_requirements"
           THEN /\ calls' = Append(called, Ev("handler", n, 0, ""))
                /\ pc' = "issue"
                /\ made' = {}
                /\ UNCHANGED <<idx, outcome, running, loop_pc, dirs, unread, tree,
                               recipe_path, error>>
           ELSE LET replied == Append(called, Ev("not_recognized", n, 0, ""))
                IN  \/ /\ calls' = replied
                       /\ pc' = "loop"
                       /\ idx' = idx + 1
                       /\ UNCHANGED <<outcome, running, loop_pc, dirs, made, unread,
                                      tree, recipe_path, error>>
                    \/ /\ RaiseAfter(replied, n, "not_recognized", dirs)
                       /\ UNCHANGED <<idx, made>>
    /\ UNCHANGED <<mentions, elapsed, cycles, all_mentions, last_update, msg, redo>>
    /\ UNCHANGED ovars

\* ---- show_requirements and _extract_send_requirements ----
\* the regenerated recipe is not waited for
AfterStep_SkipRegenerate(at) ==
    CASE at = "issue"      -> "pr"
      [] at = "pr"         -> "clone"
      [] at = "clone"      -> "locate"
      [] at = "locate"     -> "load"
      [] at = "load"       -> "render"
      [] at = "render"     -> "download"
      [] at = "download"   -> "comment"
      [] at = "regenerate" -> "comment"

\* the statement that follows a step of the handler that has succeeded
AfterStep(at) ==
    CASE at = "issue"      -> "pr"
      [] at = "pr"         -> "clone"
      [] at = "clone"      -> "locate"
      [] at = "locate"     -> "load"
      [] at = "load"       -> "render"
      [] at = "render"     -> "download"
      [] at = "download"   -> "regenerate"
      [] at = "regenerate" -> "comment"

\* a handler step that only succeeds or raises
HandlerStep(at) ==
    /\ pc = at
    /\ \/ /\ pc' = AfterStep(at)
          /\ calls' = Append(calls, Ev(at, msg.issue_url, 0, ""))
          /\ UNCHANGED <<outcome, running, loop_pc, dirs, unread, tree, recipe_path, error>>
       \/ Raise(msg.issue_url, at, DirsAfterRaise(dirs))
    /\ UNCHANGED <<mentions, elapsed, cycles, all_mentions, idx, last_update,
                   msg, made, redo>>
    /\ UNCHANGED ovars

\* line 142: get_issue_info
GetIssueInfo == HandlerStep("issue")

\* lines 143-145: get_pr_info, then the clone directory is created
GetPrInfo ==
    /\ pc = "pr"
    /\ \/ /\ pc' = AfterStep("pr")
          /\ calls' = Append(calls, Ev("pr", msg.issue_url, 0, ""))
          /\ dirs' = dirs \cup {"folder"}
          /\ made' = made \cup {"folder"}
          /\ UNCHANGED <<outcome, running, loop_pc, unread, tree, recipe_path, error>>
       \/ /\ Raise(msg.issue_url, "pr", DirsAfterRaise(dirs))
          /\ UNCHANGED made
    /\ UNCHANGED <<mentions, elapsed, cycles, all_mentions, idx, last_update, msg, redo>>
    /\ UNCHANGED ovars

\* what the cloned branch holds in its recipe folder
RecipeFolders == SUBSET {"meta.yaml", "meta.yml"}

\* lines 99-109: git clone --branch
Clone ==
    /\ pc = "clone"
    /\ \/ /\ pc' = AfterStep("clone")
          /\ calls' = Append(calls, Ev("clone", msg.issue_url, 0, ""))
          /\ \E files \in RecipeFolders : tree' = files
          /\ UNCHANGED <<outcome, running, loop_pc, dirs, unread, recipe_path, error>>
       \/ Raise(msg.issue_url, "clone", DirsAfterRaise(dirs))
    /\ UNCHANGED <<mentions, elapsed, cycles, all_mentions, idx, last_update,
                   msg, made, redo>>
    /\ UNCHANGED ovars

\* only recipe/meta.yaml is looked for
RecipePath_YamlOnly(files) ==
    IF "meta.yaml" \in files THEN "recipe/meta.yaml" ELSE ""

\* lines 110-113: recipe/meta.yaml if it is a file, else recipe/meta.yml if
\* that is a file, else none
RecipePath(files) ==
    IF "meta.yaml" \in files THEN "recipe/meta.yaml"
    ELSE IF "meta.yml" \in files THEN "recipe/meta.yml"
    ELSE ""

\* lines 110-117: choose the recipe file, or ValueError
Locate ==
    /\ pc = "locate"
    /\ IF RecipePath(tree) # ""
       THEN /\ recipe_path' = RecipePath(tree)
            /\ tree' = {}
            /\ pc' = AfterStep("locate")
            /\ calls' = Append(calls, Ev("locate", msg.issue_url, 0, ""))
            /\ UNCHANGED <<outcome, running, loop_pc, dirs, unread, error>>
       ELSE Raise(msg.issue_url, "locate", DirsAfterRaise(dirs))
    /\ UNCHANGED <<mentions, elapsed, cycles, all_mentions, idx, last_update,
                   msg, made, redo>>
    /\ UNCHANGED ovars

\* line 118: Recipe(load_file=recipe_path)
Load ==
    /\ pc = "load"
    /\ \/ /\ pc' = AfterStep("load")
          /\ calls' = Append(calls, Ev("load", msg.issue_url, 0, ""))
          /\ recipe_path' = ""
          /\ UNCHANGED <<outcome, running, loop_pc, dirs, unread, tree, error>>
       \/ Raise(msg.issue_url, "load", DirsAfterRaise(dirs))
    /\ UNCHANGED <<mentions, elapsed, cycles, all_mentions, idx, last_update,
                   msg, made, redo>>
    /\ UNCHANGED ovars

\* lines 120-124: render the recipe, then the download directory is created
Render ==
    /\ pc = "render"
    /\ \/ /\ pc' = AfterStep("render")
          /\ calls' = Append(calls, Ev("render", msg.issue_url, 0, ""))
          /\ dirs' = dirs \cup {"sdist_folder"}
          /\ made' = made \cup {"sdist_folder"}
          /\ UNCHANGED <<outcome, running, loop_pc, unread, tree, recipe_path, error>>
       \/ /\ Raise(msg.issue_url, "render", DirsAfterRaise(dirs))
          /\ UNCHANGED made
    /\ UNCHANGED <<mentions, elapsed, cycles, all_mentions, idx, last_update, msg, redo>>
    /\ UNCHANGED ovars

\* lines 125-127: download_sdist_pkg
Download == HandlerStep("download")

\* lines 128-132: create_python_recipe
Regenerate == HandlerStep("regenerate")

\* lines 133-136: build the comparison and post it; both directories are
\* removed on the way out
PostComparison ==
    /\ pc = "comment"
    /\ LET n == msg.issue_url
           posted == Append(calls, Ev("comparison", n, 0, ""))
       IN  \/ /\ calls' = posted
              /\ dirs' = DirsAfterReturn(dirs)
              /\ tree' = {}
              /\ recipe_path' = ""
              /\ pc' = "loop"
              /\ idx' = idx + 1
              /\ UNCHANGED <<outcome, running, loop_pc, unread, error>>
           \/ /\ RaiseAfter(posted, n, "comment", DirsAfterRaise(dirs))
              /\ UNCHANGED idx
           \/ \* get_gs_message_show_requirements raises: nothing is posted
              /\ Raise(n, "compare", DirsAfterRaise(dirs))
              /\ UNCHANGED idx
    /\ UNCHANGED <<mentions, elapsed, cycles, all_mentions, last_update, msg, made, redo>>
    /\ UNCHANGED ovars

\* the for loop of lines 176-192 has gone through the batch
LoopDone_AfterFirst == idx > 1

LoopDone == idx > Len(all_mentions)

\* the PUT is made for every batch, the empty one included
MarkReadCalls_Always(batch, last_read_at) ==
    <<Ev("mark_read", 0, last_read_at, "read=True")>>

\* lines 193-198: one PUT with the watermark when the batch is not empty
MarkReadCalls(batch, last_read_at) ==
    IF batch # <<>> THEN <<Ev("mark_read", 0, last_read_at, "read=True")>> ELSE <<>>

\* lines 193-198: after the loop, the PUT.  The status of its response is
\* not looked at, so the call returns whether or not the platform took it;
\* requests.put itself may raise (no connection, timeout), after a request
\* that reached the platform or one that did not.
FinishCycle ==
    /\ pc = "loop"
    /\ LoopDone
    /\ LET put == MarkReadCalls(all_mentions, last_update)
       IN  IF put # <<>>
           THEN /\ \E accepted \in BOOLEAN :
                      unread' = IF accepted THEN StillUnread(unread, last_update)
                                ELSE unread
                /\ \/ /\ calls' = calls \o put
                      /\ outcome' = "completed"
                      /\ UNCHANGED error
                   \/ /\ calls' = Append(calls \o put, Ev("raise", 0, 0, "mark_read"))
                      /\ outcome' = "raised"
                      /\ error' = ErrorOf(0, "mark_read")
           ELSE /\ outcome' = "completed"
                /\ UNCHANGED <<calls, unread, error>>
    /\ pc' = "idle"
    /\ running' = running - 1
    /\ loop_pc' = "sleep"
    /\ UNCHANGED <<mentions, elapsed, cycles, all_mentions, idx, last_update, msg, dirs,
                   made, tree, recipe_path, redo>>
    /\ UNCHANGED ovars

\* a recipe without any section, and no message built
NoRecipe == [sec \in SectionNames |-> [kind |-> "absent", deps |-> <<>>]]

NoMessage == [error |-> "unset", tables |-> <<>>]

MsgIdle ==
    /\ recipe = NoRecipe
    /\ gs_recipe = NoRecipe
    /\ message = NoMessage

\* no message text routed
NoParts == [lead |-> <<>>, bot |-> <<>>, ws1 |-> <<>>, verb |-> <<>>,
            ws2 |-> <<>>, noun |-> <<>>, tail |-> <<>>]

MatchIdle ==
    /\ parts = NoParts
    /\ routed = "unset"

CmpIdle ==
    /\ current = <<>>
    /\ found = <<>>
    /\ str_eq = "unset"
    /\ table = [header |-> <<>>, rows |-> <<>>]
    /\ compared = FALSE

Init ==
    /\ PollerInit
    /\ CmpIdle
    /\ MsgIdle
    /\ MatchIdle

Next ==
    \/ Mention
    \/ IntervalElapses
    \/ SleepDone
    \/ StartCycle
    \/ FetchComment
    \/ Acknowledge
    \/ Dispatch
    \/ GetIssueInfo
    \/ GetPrInfo
    \/ Clone
    \/ Locate
    \/ Load
    \/ Render
    \/ Download
    \/ Regenerate
    \/ PostComparison
    \/ FinishCycle

Spec == Init /\ [][Next]_vars

(***************************************************************************)
(* Specification of the comparator: the inputs are drawn from all pairs of *)
(* dependency lists up to MaxDeps, Compare applies get_table_deps.         *)
(***************************************************************************)
DepLists == UNION {[1..n -> Dependency] : n \in 0..MaxDeps}

NoTable == [header |-> <<>>, rows |-> <<>>]

CmpInit ==
    /\ current \in DepLists
    /\ found \in DepLists
    /\ str_eq = "unset"
    /\ table = NoTable
    /\ compared = FALSE
    /\ PollerInit
    /\ MsgIdle
    /\ MatchIdle

Compare ==
    /\ ~ compared
    /\ \E mode \in StrEqModes :
          /\ str_eq' = mode
          /\ table' = get_table_deps(current, found, "run", mode)
    /\ compared' = TRUE
    /\ UNCHANGED <<current, found>>
    /\ UNCHANGED <<pvars, mvars, tvars>>

CmpNext == Compare

SpecCmp == CmpInit /\ [][CmpNext]_vars

(***************************************************************************)
(* Specification of the message builder: the inputs are drawn from all     *)
(* pairs of recipes whose sections are absent, null or a list of up to     *)
(* MaxDeps entries of one package; BuildMessage applies                    *)
(* get_gs_message_show_requirements.                                       *)
(***************************************************************************)
MsgLists == UNION {[1..n -> {[package_name |-> "a", constrains |-> "", selector |-> ""]}] :
                     n \in 0..MaxDeps}

SectionValues ==
    {[kind |-> "absent", deps |-> <<>>], [kind |-> "null", deps |-> <<>>]}
      \cup {[kind |-> "list", deps |-> l] : l \in MsgLists}

Recipes == [SectionNames -> SectionValues]

MsgInit ==
    /\ recipe \in Recipes
    /\ gs_recipe \in Recipes
    /\ message = NoMessage
    /\ str_eq = "unset"
    /\ current = <<>>
    /\ found = <<>>
    /\ table = NoTable
    /\ compared = FALSE
    /\ PollerInit
    /\ MatchIdle

BuildMessage ==
    /\ message = NoMessage
    /\ \E mode \in StrEqModes :
          /\ str_eq' = mode
          /\ message' = get_gs_message_show_requirements(recipe, gs_recipe, mode)
    /\ UNCHANGED <<recipe, gs_recipe, current, found, table, compared>>
    /\ UNCHANGED <<pvars, tvars>>

MsgNext == BuildMessage

SpecMsg == MsgInit /\ [][MsgNext]_vars

(***************************************************************************)
(* Specification of the command matcher: the message texts are put         *)
(* together from a lead, the bot's name, a verb and a noun in several      *)
(* spellings, runs of whitespace between them, and a tail; RunCommand      *)
(* applies the for/else of run_command_msg to the text.                    *)
(***************************************************************************)
Leads == {<<>>, <<" ">>, <<"x">>, <<"h","i"," ">>}

Bots == {BotName,
         <<"@","C","o","n","d","a","-","G","r","a","y","s","k","u","l","l">>}

\* a space, a tab and a no-break space
WsChars == {" ", "\t", "\\xa0"}

WsRuns == UNION {[1..n -> WsChars] : n \in 0..MaxWs}

Verbs == {ShowWord, <<"S","h","o","w">>}

Nouns == {Requirement,
          Requirement \o <<"s">>,
          <<"R","e","q","u","i","r","e","m","e","n","t","s">>,
          <<"r","e","q","u","i","r","e","d">>}

Tails == {<<>>, <<" ","n","o","w">>}

\* msg, the body of the comment
MessageOf(p) == p.lead \o p.bot \o p.ws1 \o p.verb \o p.ws2 \o p.noun \o p.tail

MatchInit ==
    /\ parts \in [lead : Leads, bot : Bots, ws1 : WsRuns, verb : Verbs,
                   ws2 : WsRuns, noun : Nouns, tail : Tails]
    /\ routed = "unset"
    /\ CmpIdle
    /\ MsgIdle
    /\ PollerInit

RunCommand ==
    /\ routed = "unset"
    /\ routed' = Route(MessageOf(parts))
    /\ UNCHANGED <<parts, cvars, mvars, pvars>>

MatchNext == RunCommand

SpecMatch == MatchInit /\ [][MatchNext]_vars

(***************************************************************************)
(* Claims about the comparator.                                            *)
(***************************************************************************)
PlusRows(t)    == SelectSeq(t.rows, LAMBDA r : r.mark = ":heavy_plus_sign:")
NonPlusRows(t) == SelectSeq(t.rows, LAMBDA r : r.mark # ":heavy_plus_sign:")

NameInList(name, deps) == \E i \in 1..Len(deps) : deps[i].package_name = name

\* the found dependencies whose package name no current dependency has
Unmatched(gs_deps, current_deps) ==
    SelectSeq(gs_deps, LAMBDA g : ~ NameInList(g.package_name, current_deps))

Bare(name) == [package_name |-> name, constrains |-> "", selector |-> ""]

\* C1: every current dependency appears in exactly one comparison row, every
\* found dependency without a name match in current appears in exactly one
\* plus-sign row, and no dependency is counted twice: the table has one row
\* per current dependency and one per unmatched found dependency, no more.
C1_CoverageNoDoubleCount ==
    compared =>
        /\ Len(NonPlusRows(table)) = Len(current)
        /\ \A i \in 1..Len(current) :
              NonPlusRows(table)[i].cur = convert_to_str(current[i])
        /\ Len(PlusRows(table)) = Len(Unmatched(found, current))
        /\ Len(table.rows) = Len(current) + Len(Unmatched(found, current))

\* C2: a plus-sign row is emitted for a found dependency exactly when its
\* package name does not appear in the current list, so the plus-sign rows
\* are the renderings of the unmatched found dependencies, in order; and
\* current = [a, b], found = [b, c] yields a current-only, b identical,
\* c found-only.
C2_FoundOnlyIffNameAbsent ==
    compared =>
        /\ PlusRows(table) =
              [j \in 1..Len(Unmatched(found, current)) |->
                 [cur |-> "", found |-> convert_to_str(Unmatched(found, current)[j]),
                  mark |-> ":heavy_plus_sign:"]]
        /\ (current = <<Bare("a"), Bare("b")>> /\ found = <<Bare("b"), Bare("c")>>)
              => table.rows = << [cur |-> "a", found |-> "",  mark |-> ":x:"],
                                 [cur |-> "b", found |-> "b", mark |-> ":heavy_check_mark:"],
                                 [cur |-> "",  found |-> "c", mark |-> ":heavy_plus_sign:"] >>

\* C3: comparing a list with an identical copy of itself yields only
\* check-mark rows, one per element, in the order of the list.
C3_SelfCompareAllIdentical ==
    (compared /\ found = current) =>
        table.rows = [i \in 1..Len(current) |->
                        [cur   |-> convert_to_str(current[i]),
                         found |-> convert_to_str(current[i]),
                         mark  |-> ":heavy_check_mark:"]]

\* C4: a current dependency whose name occurs in found with the same selector
\* and another constraint yields exactly one exclamation-mark row pairing the
\* two renderings, and no other row for that name; current = [numpy],
\* found = [numpy >=1.20] gives that single row (the package is "a" here).
C4_MismatchedExactlyOneRow ==
    (compared /\ Len(current) = 1 /\ Len(found) = 1
       /\ found[1].package_name = current[1].package_name
       /\ found[1].selector = current[1].selector
       /\ found[1].constrains # current[1].constrains) =>
        table.rows = << [cur   |-> convert_to_str(current[1]),
                         found |-> convert_to_str(found[1]),
                         mark  |-> ":heavy_exclamation_mark:"] >>

\* s can be had from t by leaving elements out
RECURSIVE IsSubSeq(_, _)
IsSubSeq(s, t) ==
    IF s = <<>> THEN TRUE
    ELSE IF t = <<>> THEN FALSE
    ELSE IF Head(s) = Head(t) THEN IsSubSeq(Tail(s), Tail(t))
    ELSE IsSubSeq(s, Tail(t))

\* C14: the rows of a table are the rows of the current dependencies, one
\* each in the order of the current list, followed by the found-only rows
\* in the order of the found list; no found-only row stands before a row
\* of a current dependency.
C14_CurrentRowsThenFoundOnlyRows ==
    compared =>
        /\ \A p \in 1..Len(table.rows) : \A q \in p..Len(table.rows) :
              table.rows[p].mark = ":heavy_plus_sign:"
                => table.rows[q].mark = ":heavy_plus_sign:"
        /\ Len(NonPlusRows(table)) = Len(current)
        /\ \A i \in 1..Len(current) :
              NonPlusRows(table)[i].cur = convert_to_str(current[i])
        /\ IsSubSeq([j \in 1..Len(PlusRows(table)) |-> PlusRows(table)[j].found],
                    [j \in 1..Len(found) |-> convert_to_str(found[j])])

C14_Witness ==
    /\ compared
    /\ Len(current) >= 2
    /\ current[1] # current[2]
    /\ Len(PlusRows(table)) >= 2
    /\ PlusRows(table)[1] # PlusRows(table)[2]

\* C17: when several found dependencies have the package name of a current
\* dependency, the row of that current dependency is the one its comparison
\* with the first of them gives (identical, or mismatched with the first
\* one's rendering), and it is the only row of that current dependency.
C17_FirstFoundOfNameDecides ==
    compared =>
        /\ Len(NonPlusRows(table)) = Len(current)
        /\ \A i \in 1..Len(current) : \A j \in 1..Len(found) :
              (/\ found[j].package_name = current[i].package_name
               /\ \A k \in 1..(j - 1) : found[k].package_name # current[i].package_name
               /\ \E k \in (j + 1)..Len(found) :
                     found[k].package_name = current[i].package_name)
              => NonPlusRows(table)[i]
                   = IF /\ found[j].constrains = current[i].constrains
                        /\ found[j].selector = current[i].selector
                     THEN [cur   |-> convert_to_str(current[i]),
                           found |-> convert_to_str(found[j]),
                           mark  |-> ":heavy_check_mark:"]
                     ELSE [cur   |-> convert_to_str(current[i]),
                           found |-> convert_to_str(found[j]),
                           mark  |-> ":heavy_exclamation_mark:"]

C17_Witness ==
    /\ compared
    /\ Len(current) = 1
    /\ Len(found) = 2
    /\ found[1] = current[1]
    /\ found[2].package_name = current[1].package_name
    /\ found[2].constrains # current[1].constrains
    /\ NonPlusRows(table)[1].mark = ":heavy_check_mark:"

(***************************************************************************)
(* Claims about the message builder.                                       *)
(***************************************************************************)
Built == message # NoMessage

\* the section names of the tables of the message, in their order
TableSections == [k \in 1..Len(message.tables) |-> message.tables[k].section]

\* the current recipe has this one section key and no other
OnlySection(sec) ==
    \A other \in SectionNames : HasSection(recipe, other) <=> other = sec

\* C12: the message holds the section tables in the order build, host, run,
\* one table for each section whose key the current recipe has and none for
\* any other section, whatever the found recipe holds for it.
C12_TablesForCurrentSections ==
    Built =>
        TableSections = SelectSeq(Sections, LAMBDA sec : HasSection(recipe, sec))

\* C13: for a section the current recipe lists and for which the found
\* recipe has a null value or no key, the table is built without error as
\* if found were empty: one current-only row per current dependency, in
\* order, and no found-only row.
C13_FoundWithoutEntriesIsEmpty ==
    Built =>
        \A sec \in SectionNames :
            (/\ OnlySection(sec)
             /\ recipe[sec].kind = "list"
             /\ gs_recipe[sec].kind \in {"null", "absent"})
            => /\ message.error = ""
               /\ Len(message.tables) = 1
               /\ Len(message.tables[1].rows) = Len(recipe[sec].deps)
               /\ \A i \in 1..Len(recipe[sec].deps) :
                     message.tables[1].rows[i]
                       = [cur   |-> convert_to_str(recipe[sec].deps[i]),
                          found |-> "",
                          mark  |-> ":x:"]

(***************************************************************************)
(* Claims about the command matcher.                                       *)
(***************************************************************************)
\* the words of the command as the pattern spells them
SpelledRight ==
    /\ parts.bot = BotName
    /\ parts.verb = ShowWord
    /\ parts.noun \in {Requirement, Requirement \o <<"s">>}

\* C19: the command is recognised only at the start of the text and only in
\* the pattern's letter case: a text with leading characters before the
\* command, or with a word of it in another case, gets the not-recognized
\* reply; between the bot's name, "show" and "requirement(s)" any run of
\* whitespace of at least one character is accepted, and an empty run is not.
C19_AnchoredCaseSensitiveFlexibleWhitespace ==
    routed # "unset" =>
        /\ parts.lead # <<>> => routed = "not_recognized"
        /\ ~ SpelledRight => routed = "not_recognized"
        /\ (parts.ws1 = <<>> \/ parts.ws2 = <<>>) => routed = "not_recognized"
        /\ (/\ parts.lead = <<>>
            /\ SpelledRight
            /\ Len(parts.ws1) >= 1
            /\ Len(parts.ws2) >= 1) => routed = "show_requirements"

C19_Witness ==
    /\ routed = "not_recognized"
    /\ parts.lead = <<"h","i"," ">>
    /\ SpelledRight
    /\ Len(parts.ws1) = 2
    /\ parts.ws1[1] # parts.ws1[2]
    /\ Len(parts.ws2) = 1

(***************************************************************************)
(* Claims about the dispatch, the handler and the poller.                  *)
(***************************************************************************)
\* positions of the calls of one kind made for notification n in this cycle
Calls(op, n) == {p \in 1..Len(calls) : calls[p].op = op /\ calls[p].n = n}
Count(op, n) == Cardinality(Calls(op, n))

BatchIds == {all_mentions[k].id : k \in 1..Len(all_mentions)}

\* the comment this cycle fetched for notification n
Fetched(n) == calls[CHOOSE p \in Calls("get_comment", n) : TRUE].step

\* the greatest updated-at instant of the batch
BatchMax ==
    CHOOSE t \in {all_mentions[k].updated_at.instant : k \in 1..Len(all_mentions)} :
        \A k \in 1..Len(all_mentions) : all_mentions[k].updated_at.instant <= t

CycleOver == pc = "idle" /\ outcome \in {"completed", "raised"}

\* the cycle ended with an exception of the mark-read call itself
PutRaised == calls # <<>> /\ calls[Len(calls)] = Ev("raise", 0, 0, "mark_read")

\* C5: every message handed to run_command_msg has exactly one of two
\* outcomes: the show-requirements handler is invoked once and no
\* not-recognized reply is sent, or one not-recognized reply is sent and no
\* handler is invoked; "show requirements" and "show requirement" go to the
\* handler, "delete everything" to the not-recognized reply.
C5_ExactlyOneRoute ==
    \A p \in 1..Len(calls) :
        /\ calls[p].op = "dispatch" =>
              /\ p > 2
              /\ p < Len(calls)
              /\ calls[p + 1].n = calls[p].n
              /\ calls[p + 1].op \in {"handler", "not_recognized"}
              /\ calls[p - 2].op = "get_comment"
              /\ calls[p - 2].step \in {"plural", "singular"} => calls[p + 1].op = "handler"
              /\ calls[p - 2].step = "delete" => calls[p + 1].op = "not_recognized"
              /\ \A q \in (p + 1)..Len(calls) :
                    ~ (calls[q].op = "dispatch" /\ calls[q].n = calls[p].n)
        /\ calls[p].op \in {"handler", "not_recognized"} =>
              p > 1 /\ calls[p - 1] = Ev("dispatch", calls[p].n, 0, "")

C5_Witness ==
    /\ \E n \in BatchIds :
          Count("get_comment", n) = 1 /\ Fetched(n) = "singular" /\ Count("handler", n) = 1
    /\ \E n \in BatchIds :
          Count("get_comment", n) = 1 /\ Fetched(n) = "delete"
             /\ Count("not_recognized", n) = 1

\* C6 as stated: a cycle over a non-empty batch computes the maximum
\* updated-at of the batch as watermark and issues the mark-read call exactly
\* once, with that maximum and read=true.
C6_MarkReadOncePerCycle ==
    (CycleOver /\ all_mentions # <<>>) =>
        /\ Count("mark_read", 0) = 1
        /\ \A p \in Calls("mark_read", 0) : calls[p].at = BatchMax

\* C6 amended: a cycle that runs through its whole non-empty batch has the
\* maximum updated-at of the batch as watermark, whatever the batch order, and
\* issues the mark-read call exactly once, after every other call, with that
\* maximum and read=true; a cycle ended by a step that raises before the
\* loop is through issues no mark-read call.
C6_MarkReadOncePerCompletedCycle ==
    /\ Count("mark_read", 0) <= 1
    /\ (CycleOver /\ all_mentions # <<>> /\ (outcome = "completed" \/ PutRaised)) =>
          /\ last_update = BatchMax
          /\ Count("mark_read", 0) = 1
          /\ calls[Len(calls) - (IF PutRaised THEN 1 ELSE 0)]
                = Ev("mark_read", 0, BatchMax, "read=True")
    /\ (CycleOver /\ outcome = "raised" /\ ~ PutRaised) => Count("mark_read", 0) = 0

C6_Witness ==
    /\ CycleOver
    /\ outcome = "completed"
    /\ Len(all_mentions) >= 2
    /\ all_mentions[1].updated_at.instant > all_mentions[Len(all_mentions)].updated_at.instant
    /\ Count("mark_read", 0) = 1

\* C7: a failure raised inside the show-requirements handler does not abort
\* the cycle: every notification of the batch is still processed.
C7_HandlerFailureContained ==
    (CycleOver /\ \E p \in 1..Len(calls) :
                      calls[p].op = "raise" /\ calls[p].step \in HandlerSteps) =>
        \A n \in BatchIds : Count("get_comment", n) = 1 /\ Count("ack", n) = 1

\* C8: the acknowledgment is posted before the comment is dispatched, for
\* every mention that is processed, recognized or not: each dispatch directly
\* follows the acknowledgment of the same mention, a not-recognized reply
\* follows acknowledgment and dispatch in that order, and a cycle that
\* processed its whole batch acknowledged every notification once.
C8_AckBeforeDispatch ==
    /\ \A p \in 1..Len(calls) :
          /\ calls[p].op = "dispatch" =>
                p > 1 /\ calls[p - 1] = Ev("ack", calls[p].n, 0, "")
          /\ calls[p].op = "not_recognized" =>
                /\ p > 2
                /\ calls[p - 1] = Ev("dispatch", calls[p].n, 0, "")
                /\ calls[p - 2] = Ev("ack", calls[p].n, 0, "")
    /\ pc \in {"dispatch"} \cup HandlerPcs => Count("ack", msg.issue_url) = 1
    /\ (CycleOver /\ outcome = "completed") => \A n \in BatchIds : Count("ack", n) = 1

C8_Witness ==
    \E p \in 3..Len(calls) :
        /\ calls[p].op = "not_recognized"
        /\ calls[p - 2].op = "ack"
        /\ Len(all_mentions) >= 2

\* C9: no two polling cycles overlap, also when the interval has passed
\* while a cycle is still in flight; within a cycle the notifications are
\* processed one after another in the order returned.
C9_NoOverlapSequential ==
    /\ running <= 1
    /\ (pc # "idle") = (running = 1)
    /\ (loop_pc = "call") = (running = 1)
    /\ LET fetched == SelectSeq(calls, LAMBDA e : e.op = "get_comment")
       IN  /\ Len(fetched) <= Len(all_mentions)
           /\ \A j \in 1..Len(fetched) : fetched[j].n = all_mentions[j].id
           /\ Len(fetched) \in {idx - 1, idx}
    /\ \A p \in 2..Len(calls) :
          (calls[p].n # 0 /\ calls[p].op \notin {"get_comment", "raise"})
             => calls[p - 1].n = calls[p].n

C9_Witness ==
    /\ elapsed
    /\ loop_pc = "call"
    /\ running = 1
    /\ idx = 2
    /\ pc \in HandlerPcs

\* C10: every scratch directory the show-requirements handler creates is
\* gone once the invocation has ended, on every exit path.
C10_ScratchDirsRemoved ==
    /\ pc \notin HandlerPcs => dirs = {}
    /\ dirs \subseteq made

C10_Witness ==
    /\ CycleOver
    /\ outcome = "raised"
    /\ made = {"folder", "sdist_folder"}
    /\ dirs = {}

\* the steps of the handler before the comparison is posted, in their order
StepOps == <<"issue", "pr", "clone", "locate", "load", "render", "download", "regenerate">>

UnreadIds == {m.id : m \in unread}

\* the steps of the handler that come before the comparison is posted
StepsBeforePost == {"issue", "pr", "clone", "locate", "load", "render", "download",
                    "regenerate", "compare"}

\* C11: when the clone has neither recipe/meta.yaml nor recipe/meta.yml the
\* handler fails at the recipe lookup with an error that names the
\* repository URL of the pull request, and nothing follows it: no render,
\* download, regeneration or comparison comment; when meta.yaml is absent
\* and meta.yml is there, the handler goes on to load recipe/meta.yml.
C11_MissingRecipeFailsYmlFallback ==
    /\ [][(pc = "locate" /\ pc' # "locate") =>
            IF "meta.yaml" \notin tree /\ "meta.yml" \notin tree
            THEN /\ pc' = "idle"
                 /\ outcome' = "raised"
                 /\ calls' = Append(calls, Ev("raise", msg.issue_url, 0, "locate"))
                 /\ error' = "There is no recipe file in recipe folder (meta.yaml or meta.yml)"
                               \o " - " \o GitUrl(msg.issue_url)
            ELSE /\ pc' = "load"
                 /\ "meta.yaml" \notin tree => recipe_path' = "recipe/meta.yml"
                 /\ "meta.yaml" \in tree => recipe_path' = "recipe/meta.yaml"]_vars
    /\ [](\A p \in 1..Len(calls) :
            (calls[p].op = "raise" /\ calls[p].step = "locate") =>
               /\ p = Len(calls)
               /\ CycleOver
               /\ \A q \in 1..Len(calls) :
                     calls[q].n = calls[p].n =>
                        calls[q].op \notin {"load", "render", "download", "regenerate",
                                            "comparison"})

C11_Witness ==
    /\ pc = "load"
    /\ recipe_path = "recipe/meta.yml"
    /\ calls[Len(calls)] = Ev("locate", msg.issue_url, 0, "")

\* C15: the mark-read call is one call for the whole batch, made only when
\* every notification of the batch has been processed to its end (its
\* comparison or its not-recognized reply is out); no call of the cycle
\* follows it, so none is made between notifications or while a dispatch is
\* still under way.
C15_MarkReadAfterWholeBatch ==
    \A p \in 1..Len(calls) :
        calls[p].op = "mark_read" =>
            /\ p = Len(calls) \/ (p = Len(calls) - 1 /\ PutRaised)
            /\ CycleOver
            /\ \A q \in 1..Len(calls) : q # p => calls[q].op # "mark_read"
            /\ \A k \in 1..Len(all_mentions) :
                  \E q \in 1..(p - 1) :
                      /\ calls[q].n = all_mentions[k].id
                      /\ calls[q].op \in {"comparison", "not_recognized"}

C15_Witness ==
    /\ CycleOver
    /\ Len(all_mentions) >= 2
    /\ calls[Len(calls)].op = "mark_read"
    /\ \E q \in 1..Len(calls) : calls[q].op = "comparison"
    /\ \E q \in 1..Len(calls) : calls[q].op = "not_recognized"

\* C16: a cycle whose batch is empty ends without any call: no comment
\* fetch, acknowledgment, dispatch or mark-read; a cycle whose notification
\* fetch fails ends there, without any other call.
C16_EmptyBatchNoCalls ==
    /\ (all_mentions = <<>> /\ outcome \in {"running", "completed"}) => calls = <<>>
    /\ \A p \in 1..Len(calls) :
          calls[p] = Ev("raise", 0, 0, "notifications") =>
              /\ Len(calls) = 1
              /\ CycleOver
              /\ outcome = "raised"

C16_Witness ==
    /\ CycleOver
    /\ outcome = "completed"
    /\ all_mentions = <<>>
    /\ calls = <<>>
    /\ unread # {}

\* C18: within one handler invocation the comparison comment is posted at
\* most once, directly after issue and pull-request resolution, clone,
\* recipe lookup and load, render, download and regeneration have succeeded
\* in that order, and no step of the invocation follows it; a step that
\* fails ends the invocation without a comparison comment and without any
\* later step.
C18_ComparisonPostedLast ==
    /\ \A p \in 1..Len(calls) :
          calls[p].op = "comparison" =>
              /\ p > Len(StepOps) + 1
              /\ calls[p - Len(StepOps) - 1] = Ev("handler", calls[p].n, 0, "")
              /\ \A k \in 1..Len(StepOps) :
                    calls[p - Len(StepOps) - 1 + k] = Ev(StepOps[k], calls[p].n, 0, "")
              /\ \A q \in (p + 1)..Len(calls) :
                    calls[q].n = calls[p].n => calls[q] = Ev("raise", calls[p].n, 0, "comment")
    /\ \A p \in 1..(Len(calls) - 1) : calls[p].op # "raise"
    /\ (/\ calls # <<>>
        /\ calls[Len(calls)].op = "raise"
        /\ calls[Len(calls)].step \in StepsBeforePost) =>
            /\ pc = "idle"
            /\ \A q \in 1..Len(calls) :
                  ~ (calls[q].op = "comparison" /\ calls[q].n = calls[Len(calls)].n)

C18_Witness ==
    /\ \E p \in 1..Len(calls) : calls[p].op = "comparison"
    /\ calls[Len(calls)].op = "raise"
    /\ calls[Len(calls)].step = "regenerate"

\* C20: the mark-read call is made only when every notification of the
\* batch has been processed and no step has raised; a cycle that a raising
\* step ended before that has made no mark-read call and leaves every
\* notification of its batch unread, the ones it had processed included,
\* and the next cycle that fetches the notifications has all of them in its
\* batch again, to be acknowledged and dispatched once more.
C20_RaisedCycleIsRedone ==
    /\ [](\A p \in 1..Len(calls) :
            calls[p].op = "mark_read" =>
               /\ \A q \in 1..(p - 1) : calls[q].op # "raise"
               /\ \A n \in BatchIds :
                     \E q \in 1..(p - 1) :
                         calls[q].n = n /\ calls[q].op \in {"comparison", "not_recognized"})
    /\ []((CycleOver /\ outcome = "raised" /\ ~ PutRaised) =>
            /\ \A p \in 1..Len(calls) : calls[p].op # "mark_read"
            /\ BatchIds \subseteq UnreadIds)
    /\ [](redo \subseteq UnreadIds)
    /\ [][(pc = "idle" /\ pc' = "loop") =>
            redo \subseteq {all_mentions'[k].id : k \in 1..Len(all_mentions')}]_vars

C20_Witness ==
    /\ loop_pc = "ready"
    /\ cycles < MaxCycles
    /\ \E a, b \in redo : a # b
    /\ redo \subseteq UnreadIds

====
